---- MODULE Spec2Model ----
(***************************************************************************)
(* Model of the sync orchestration found in scripts/sync_gui.py            *)
(* (CursorSyncGUI) and scripts/simple_gui.py (SimpleCursorGUI).            *)
(*                                                                         *)
(* A button handler runs on the Tk UI thread: it tests and sets the        *)
(* sync_in_progress flag, updates the widgets and starts a daemon worker   *)
(* thread.  The worker thread runs the external commands one after another *)
(* through run_command, shows the verdict dialog, and releases the flag in *)
(* a finally clause before it restores the widgets.                        *)
(***************************************************************************)
EXTENDS Naturals, Sequences, FiniteSets, TLC

VARIABLES
    gui,               \* which program is running: "sync" or "simple"
    fs,                \* the marker files in the working directory
    sync_in_progress,  \* self.sync_in_progress
    button,            \* state of the button bound to each handler
    progress,          \* TRUE while the progress bar is started
    status_label,      \* text of self.status_label
    warning_open,      \* the modal "in progress" warning is on screen
    pc,                \* per worker thread: position in the thread body
    act,               \* per worker thread: the handler that started it
    pos,               \* per worker thread: index of the next statement of the body
    step,              \* per worker thread: the step run_command is executing
    proc,              \* per worker thread: what the process of the call just over did
    last,              \* per worker thread: what the run_command call just over did
    success,           \* per worker thread: local variable success
    results,           \* per worker thread: local list results (test_integrations)
    seen,              \* per worker thread: what os.path.exists returned to it
    snapshot,          \* per worker thread: fs as it was when the button was clicked
    events,            \* per worker thread: log lines and dialogs it produced
    qt_pc,             \* quick_test.py: "off", in the loop of main ("tests"), or "done"
    passed,            \* quick_test.py: local variable passed of main
    ran,               \* quick_test.py: what the process of each test run so far did
    printed,           \* quick_test.py: the result lines printed so far
    se_pc,             \* setup_env.py: position in main ("off" when not running)
    argv,              \* setup_env.py: sys.argv of the current invocation
    env_file,          \* the file .env of the working directory
    response,          \* setup_env.py: local variable response of main
    wrote,             \* setup_env.py: this invocation has opened .env for writing
    se_out             \* setup_env.py: what the invocation returned and printed

\* The variables of the two windows.
windows == <<gui, fs, sync_in_progress, button, progress, status_label, warning_open,
             pc, act, pos, step, proc, last, success, results, seen, snapshot, events>>

\* The variables of scripts/quick_test.py.
quick == <<qt_pc, passed, ran, printed>>

\* The variables of scripts/setup_env.py.
setup == <<se_pc, argv, env_file, response, wrote, se_out>>

\* The variables of the command-line scripts.
scripts == <<quick, setup>>

vars == <<windows, scripts>>

ui == <<button, progress, status_label>>
locals == <<act, pos, step, proc, last, success, results, seen, snapshot, events>>

-----------------------------------------------------------------------------
(* Bounds of the model *)

\* Worker threads that may be alive at the same time.
MaxThreads == 2

Threads == 1..MaxThreads

\* Wall-clock durations (seconds) a spawned process may take.
Durations == {1, 100, 400}

\* Exit statuses a spawned process may return.
ReturnCodes == {0, 1}

\* What a spawned process may have written to its pipes by the time
\* subprocess.run is over: nothing, or some text.
Outputs == {"", "text"}

-----------------------------------------------------------------------------
(* Program constants *)

\* subprocess.run(..., timeout=300) in CursorSyncGUI.run_command
SyncTimeout == 300

\* subprocess.run(..., timeout=60) in SimpleCursorGUI.run_command
SimpleTimeout == 60

\* subprocess.run(..., timeout=30) in run_test of quick_test.py
QuickTimeout == 30

Markers == {"cursor-config", "machine-sync-config.json", "tool-sync-config.json"}

SyncHandlers == {"sync_cursor", "sync_everything", "export_config",
                 "test_integrations", "generate_summary"}

SimpleHandlers == {"export_cursor", "import_cursor", "simple_generate_summary",
                   "run_tests"}

Handlers == SyncHandlers \cup SimpleHandlers

GuiOf(h) == IF h \in SyncHandlers THEN "sync" ELSE "simple"

Timeout(g) == IF g = "sync" THEN SyncTimeout ELSE SimpleTimeout

\* Text of the status label when no handler has changed it.
ReadyText(g) == IF g = "sync" THEN "Ready to sync" ELSE "Ready"

\* Text a handler puts in the status label when it admits a run.
BusyText(h) ==
    CASE h = "sync_cursor"             -> "Syncing Cursor configuration..."
      [] h = "sync_everything"         -> "Syncing everything..."
      [] h = "export_config"           -> "Exporting configuration..."
      [] h = "test_integrations"       -> "Testing integrations..."
      [] h = "generate_summary"        -> "Generating summary..."
      [] h = "export_cursor"           -> "Exporting Cursor configuration..."
      [] h = "import_cursor"           -> "Importing Cursor configuration..."
      [] h = "simple_generate_summary" -> "Generating project summary..."
      [] h = "run_tests"               -> "Running tests..."

-----------------------------------------------------------------------------
(* Steps and thread bodies *)

Step(command, description) == [command |-> command, description |-> description]

NoStep == Step("", "")

ImportCursor == Step("npm run sync-cursor import", "Import Cursor configuration")
ExportCursor == Step("npm run sync-cursor export", "Export Cursor configuration")
SyncMachines == Step("npm run sync-machines", "Sync machine configuration")
SyncTools == Step("npm run sync-tools", "Sync tool configuration")
GenerateMachines == Step("npm run sync-machines", "Generate machine sync configuration")
GenerateTools == Step("npm run sync-tools", "Generate tool sync configuration")
GenerateSummary == Step("npm run generate-summary", "Generate project summary")
RunProjectTests == Step("npm test", "Run project tests")

\* The list integrations of test_thread.
integrations ==
    << [name |-> "Google Workspace", command |-> "npm run google:health"],
       [name |-> "MindPal", command |-> "npm run mindpal:health"],
       [name |-> "DeerFlow", command |-> "npm run deerflow:health"],
       [name |-> "Render", command |-> "npm run render:health"],
       [name |-> "Make.com", command |-> "npm run make:health"] >>

\* self.run_command(command, f"Test {name}") for the i-th integration.
TestStep(i) == Step(integrations[i].command, "Test " \o integrations[i].name)

\* One statement of a thread body: "if os.path.exists(marker): run present
\* else: run absent"; NoStep stands for a missing branch.
IfExists(marker, present, absent) ==
    [exists |-> marker, present |-> present, absent |-> absent]

\* An unconditional run_command call.
Always(s) == [exists |-> "", present |-> s, absent |-> s]

\* ThreadBody with "if not os.path.exists" for the machine configuration of
\* sync_everything.
ThreadBodyNegated(h) ==
    IF h = "sync_everything"
    THEN << IfExists("cursor-config", ImportCursor, ExportCursor),
            IfExists("machine-sync-config.json", NoStep, SyncMachines),
            IfExists("tool-sync-config.json", SyncTools, NoStep),
            Always(GenerateSummary) >>
    ELSE IF h = "sync_cursor"
    THEN << IfExists("cursor-config", ImportCursor, ExportCursor) >>
    ELSE IF h = "export_config"
    THEN << Always(ExportCursor),
            IfExists("machine-sync-config.json", NoStep, GenerateMachines),
            IfExists("tool-sync-config.json", NoStep, GenerateTools),
            Always(GenerateSummary) >>
    ELSE IF h = "test_integrations"
    THEN [i \in 1..Len(integrations) |-> Always(TestStep(i))]
    ELSE IF h = "export_cursor" THEN << Always(ExportCursor) >>
    ELSE IF h = "import_cursor" THEN << Always(ImportCursor) >>
    ELSE IF h = "run_tests" THEN << Always(RunProjectTests) >>
    ELSE << Always(GenerateSummary) >>

\* ThreadBody whose export_config tests "if os.path.exists" where the body
\* has "if not os.path.exists".
ThreadBodyExportUnnegated(h) ==
    IF h = "export_config"
    THEN << Always(ExportCursor),
            IfExists("machine-sync-config.json", GenerateMachines, NoStep),
            IfExists("tool-sync-config.json", GenerateTools, NoStep),
            Always(GenerateSummary) >>
    ELSE IF h = "sync_everything"
    THEN << IfExists("cursor-config", ImportCursor, ExportCursor),
            IfExists("machine-sync-config.json", SyncMachines, NoStep),
            IfExists("tool-sync-config.json", SyncTools, NoStep),
            Always(GenerateSummary) >>
    ELSE IF h = "sync_cursor"
    THEN << IfExists("cursor-config", ImportCursor, ExportCursor) >>
    ELSE IF h = "test_integrations"
    THEN [i \in 1..Len(integrations) |-> Always(TestStep(i))]
    ELSE IF h = "export_cursor" THEN << Always(ExportCursor) >>
    ELSE IF h = "import_cursor" THEN << Always(ImportCursor) >>
    ELSE IF h = "run_tests" THEN << Always(RunProjectTests) >>
    ELSE << Always(GenerateSummary) >>

\* ThreadBody whose sync_cursor imports when cursor-config is missing and
\* exports when it is there.
ThreadBodySingleSwapped(h) ==
    IF h = "sync_cursor"
    THEN << IfExists("cursor-config", ExportCursor, ImportCursor) >>
    ELSE IF h = "sync_everything"
    THEN << IfExists("cursor-config", ImportCursor, ExportCursor),
            IfExists("machine-sync-config.json", SyncMachines, NoStep),
            IfExists("tool-sync-config.json", SyncTools, NoStep),
            Always(GenerateSummary) >>
    ELSE IF h = "export_config"
    THEN << Always(ExportCursor),
            IfExists("machine-sync-config.json", NoStep, GenerateMachines),
            IfExists("tool-sync-config.json", NoStep, GenerateTools),
            Always(GenerateSummary) >>
    ELSE IF h = "test_integrations"
    THEN [i \in 1..Len(integrations) |-> Always(TestStep(i))]
    ELSE IF h = "export_cursor" THEN << Always(ExportCursor) >>
    ELSE IF h = "import_cursor" THEN << Always(ImportCursor) >>
    ELSE IF h = "run_tests" THEN << Always(RunProjectTests) >>
    ELSE << Always(GenerateSummary) >>

\* ThreadBody whose sync_everything syncs the tool configuration before the
\* machine configuration.
ThreadBodyToolsFirst(h) ==
    IF h = "sync_everything"
    THEN << IfExists("cursor-config", ImportCursor, ExportCursor),
            IfExists("tool-sync-config.json", SyncTools, NoStep),
            IfExists("machine-sync-config.json", SyncMachines, NoStep),
            Always(GenerateSummary) >>
    ELSE IF h = "sync_cursor"
    THEN << IfExists("cursor-config", ImportCursor, ExportCursor) >>
    ELSE IF h = "export_config"
    THEN << Always(ExportCursor),
            IfExists("machine-sync-config.json", NoStep, GenerateMachines),
            IfExists("tool-sync-config.json", NoStep, GenerateTools),
            Always(GenerateSummary) >>
    ELSE IF h = "test_integrations"
    THEN [i \in 1..Len(integrations) |-> Always(TestStep(i))]
    ELSE IF h = "export_cursor" THEN << Always(ExportCursor) >>
    ELSE IF h = "import_cursor" THEN << Always(ImportCursor) >>
    ELSE IF h = "run_tests" THEN << Always(RunProjectTests) >>
    ELSE << Always(GenerateSummary) >>

\* The run_command calls of each worker thread body, in program order.
ThreadBody(h) ==
    CASE h = "sync_cursor" ->
            << IfExists("cursor-config", ImportCursor, ExportCursor) >>
      [] h = "sync_everything" ->
            << IfExists("cursor-config", ImportCursor, ExportCursor),
               IfExists("machine-sync-config.json", SyncMachines, NoStep),
               IfExists("tool-sync-config.json", SyncTools, NoStep),
               Always(GenerateSummary) >>
      [] h = "export_config" ->
            << Always(ExportCursor),
               IfExists("machine-sync-config.json", NoStep, GenerateMachines),
               IfExists("tool-sync-config.json", NoStep, GenerateTools),
               Always(GenerateSummary) >>
      [] h = "test_integrations" ->
            [i \in 1..Len(integrations) |-> Always(TestStep(i))]
      [] h = "generate_summary" -> << Always(GenerateSummary) >>
      [] h = "export_cursor" -> << Always(ExportCursor) >>
      [] h = "import_cursor" -> << Always(ImportCursor) >>
      [] h = "simple_generate_summary" -> << Always(GenerateSummary) >>
      [] h = "run_tests" -> << Always(RunProjectTests) >>

\* What os.path.exists(marker) may return: what fs says where the model
\* follows the file, anything where it does not ("" stands for no call).
Answers(marker) ==
    IF marker = "" THEN {TRUE}
    ELSE IF fs[marker] = "untracked" THEN BOOLEAN
    ELSE {fs[marker] = "present"}

\* The step a statement selects when os.path.exists(stmt.exists) returns answer.
Selected(stmt, answer) ==
    IF stmt.exists = "" THEN stmt.present
    ELSE IF answer THEN stmt.present ELSE stmt.absent

-----------------------------------------------------------------------------
(* run_command *)

\* What a spawned process may do: fail to launch, or run for some time and
\* exit with some status.
Behaviours ==
    {[launched |-> FALSE, duration |-> 0, returncode |-> 0, output |-> ""]}
    \cup {[launched |-> TRUE, duration |-> d, returncode |-> c, output |-> o] :
            d \in Durations, c \in ReturnCodes, o \in Outputs}

NoBehaviour == [launched |-> FALSE, duration |-> 0, returncode |-> 0, output |-> ""]

\* Result of one run_command call: raised is TRUE when an exception leaves
\* the call; otherwise value is the boolean returned, logged names the
\* final log line written ("completed", "failed_with_code", "timed_out",
\* "failed") and output is what the "Output:" and "Error:" log lines show of
\* the text of the process.
Returned(value, logged, output) ==
    [raised |-> FALSE, value |-> value, logged |-> logged, output |-> output]

Raised == [raised |-> TRUE, value |-> FALSE, logged |-> "none", output |-> ""]

NoResult == [raised |-> FALSE, value |-> FALSE, logged |-> "none", output |-> ""]

\* run_command calling subprocess.run without timeout=: a slow process is
\* waited for and judged by its exit status.
run_commandNoTimeout(beh, timeout) ==
    IF ~beh.launched THEN Returned(FALSE, "failed", "")
    ELSE IF beh.returncode = 0 THEN Returned(TRUE, "completed", beh.output)
    ELSE Returned(FALSE, "failed_with_code", beh.output)

\* run_command without its "except Exception" clause: a launch error leaves
\* the call.
run_commandNoCatchAll(beh, timeout) ==
    IF ~beh.launched THEN Raised
    ELSE IF beh.duration > timeout THEN Returned(FALSE, "timed_out", "")
    ELSE IF beh.returncode = 0 THEN Returned(TRUE, "completed", beh.output)
    ELSE Returned(FALSE, "failed_with_code", beh.output)

\* subprocess.run raises for a process that cannot be launched (caught by
\* "except Exception"), raises TimeoutExpired for one that outlives the
\* timeout, and otherwise returns its exit status and its text.  The text is
\* logged where subprocess.run returned; the TimeoutExpired clause logs only
\* that the step timed out and drops the exception with the text it carries.
run_command(beh, timeout) ==
    IF ~beh.launched THEN Returned(FALSE, "failed", "")
    ELSE IF beh.duration > timeout THEN Returned(FALSE, "timed_out", "")
    ELSE IF beh.returncode = 0 THEN Returned(TRUE, "completed", beh.output)
    ELSE Returned(FALSE, "failed_with_code", beh.output)

-----------------------------------------------------------------------------
(* Events a worker thread produces *)

StepStarted(s) == [type |-> "StepStarted", name |-> s.description]

StepFinished(s, r) ==
    [type |-> "StepFinished", name |-> s.description, succeeded |-> r.value]

\* The verdict dialog: box is the messagebox function called, failed the
\* step names its text lists.
RunFinished(box, failed) == [type |-> "RunFinished", box |-> box, failed |-> failed]

\* Handlers whose thread body accumulates with "success &= ...".
Accumulating == {"sync_everything", "export_config"}

\* Accumulate with "success = ..." where the body has "success &= ...".
AccumulateAssign(h, old, value) == value

\* The value of the local success after a run_command call returned value.
Accumulate(h, old, value) ==
    IF h \in Accumulating THEN old /\ value ELSE value

\* results.append((name, success)) for the i-th integration of test_thread;
\* the other bodies keep no list.
Append_results(h, old, i, value) ==
    IF h = "test_integrations"
    THEN Append(old, [name |-> integrations[i].name, success |-> value])
    ELSE old

RECURSIVE FailedNamesReversed(_)
\* FailedNames collecting the names back to front.
FailedNamesReversed(rs) ==
    IF rs = <<>> THEN <<>>
    ELSE FailedNamesReversed(Tail(rs)) \o (IF Head(rs).success THEN <<>> ELSE <<Head(rs).name>>)

RECURSIVE FailedNames(_)
\* failed = [name for name, success in results if not success]
FailedNames(rs) ==
    IF rs = <<>> THEN <<>>
    ELSE (IF Head(rs).success THEN <<>> ELSE <<Head(rs).name>>) \o FailedNames(Tail(rs))

\* The dialog shown at the end of the try body.
Verdict(h, ok, rs) ==
    IF h = "test_integrations"
    THEN IF FailedNames(rs) # <<>>
         THEN RunFinished("showwarning", FailedNames(rs))
         ELSE RunFinished("showinfo", <<>>)
    ELSE IF ok THEN RunFinished("showinfo", <<>>)
         ELSE RunFinished("showerror", <<>>)

-----------------------------------------------------------------------------
(* Initial state: the window has been built, no handler has run *)

Unread == [m \in Markers |-> "unread"]

\* No marker file is followed: os.path.exists may answer anything at any time.
Untracked == [m \in Markers |-> "untracked"]

\* quick_test.py is not running.
QuickTestOff ==
    /\ qt_pc = "off"
    /\ passed = 0
    /\ ran = <<>>
    /\ printed = <<>>

\* No file .env.
Absent == [exists |-> FALSE, content |-> <<>>]

\* Nothing returned or printed yet.
NoOut == [value |-> FALSE, line |-> ""]

\* setup_env.py is not running.
SetupEnvOff ==
    /\ se_pc = "off"
    /\ argv = <<>>
    /\ env_file = Absent
    /\ response = <<>>
    /\ wrote = FALSE
    /\ se_out = NoOut

\* No command-line script is running.
ScriptsOff == QuickTestOff /\ SetupEnvOff

Init ==
    /\ ScriptsOff
    /\ gui \in {"sync", "simple"}
    /\ fs = Untracked
    /\ sync_in_progress = FALSE
    /\ button = [h \in Handlers |-> "normal"]
    /\ progress = FALSE
    /\ status_label = ReadyText(gui)
    /\ warning_open = FALSE
    /\ pc = [t \in Threads |-> "idle"]
    /\ act = [t \in Threads |-> "none"]
    /\ pos = [t \in Threads |-> 0]
    /\ step = [t \in Threads |-> NoStep]
    /\ proc = [t \in Threads |-> NoBehaviour]
    /\ last = [t \in Threads |-> NoResult]
    /\ success = [t \in Threads |-> TRUE]
    /\ results = [t \in Threads |-> <<>>]
    /\ seen = [t \in Threads |-> Unread]
    /\ snapshot = [t \in Threads |-> Untracked]
    /\ events = [t \in Threads |-> <<>>]

-----------------------------------------------------------------------------
(* Button handlers (UI thread) *)

\* The thread object a handler creates: the lowest unused slot.
NewThread == CHOOSE t \in Threads : pc[t] = "idle" /\ \A u \in Threads : pc[u] = "idle" => t <= u

\* Submit without the "if self.sync_in_progress: ... return" test.
SubmitUnguarded(h) ==
    /\ gui = GuiOf(h)
    /\ button[h] = "normal"
    /\ ~warning_open
    /\ \E t \in Threads : pc[t] = "idle"
    /\ sync_in_progress' = TRUE
    /\ button' = [button EXCEPT ![h] = "disabled"]
    /\ progress' = TRUE
    /\ status_label' = BusyText(h)
    /\ pc' = [pc EXCEPT ![NewThread] = "try"]
    /\ act' = [act EXCEPT ![NewThread] = h]
    /\ pos' = [pos EXCEPT ![NewThread] = 1]
    /\ success' = [success EXCEPT ![NewThread] = TRUE]
    /\ results' = [results EXCEPT ![NewThread] = <<>>]
    /\ seen' = [seen EXCEPT ![NewThread] = Unread]
    /\ snapshot' = [snapshot EXCEPT ![NewThread] = fs]
    /\ events' = [events EXCEPT ![NewThread] = <<>>]
    /\ UNCHANGED <<scripts, gui, fs, warning_open, step, proc, last>>

\* Submit whose rejection branch also restores the widgets.
SubmitRejectResets(h) ==
    /\ gui = GuiOf(h)
    /\ button[h] = "normal"
    /\ ~warning_open
    /\ IF sync_in_progress
       THEN /\ warning_open' = TRUE
            /\ progress' = FALSE
            /\ status_label' = ReadyText(gui)
            /\ UNCHANGED <<scripts, gui, fs, sync_in_progress, button, pc, locals>>
       ELSE SubmitUnguarded(h)

\* The calls a handler makes after it has set the flag, in program order:
\* <button>.config(state='disabled'), progress.start(),
\* status_label.config(text=...), threading.Thread(...).start().
HandlerCalls == << "disable_button", "start_progress", "set_status", "start_thread" >>

\* A handler that found the flag clear and set it is left by an exception
\* raised by one of its calls (a TclError of a widget call, the RuntimeError
\* of a thread that cannot be started): the calls before it have taken
\* effect, no worker thread exists, and nothing resets the flag.
HandlerFault(h) ==
    \E failing \in 1..Len(HandlerCalls) :
        /\ sync_in_progress' = TRUE
        /\ button' = IF failing > 1 THEN [button EXCEPT ![h] = "disabled"] ELSE button
        /\ progress' = IF failing > 2 THEN TRUE ELSE progress
        /\ status_label' = IF failing > 3 THEN BusyText(h) ELSE status_label
        /\ UNCHANGED <<scripts, gui, fs, warning_open, pc, locals>>

\* A click on the button bound to handler h.  The click reaches the handler
\* only when the button is enabled and no modal dialog holds the grab.
Submit(h) ==
    /\ gui = GuiOf(h)
    /\ button[h] = "normal"
    /\ ~warning_open
    /\ IF sync_in_progress
       THEN /\ warning_open' = TRUE
            /\ UNCHANGED <<scripts, gui, fs, sync_in_progress, ui, pc, locals>>
       ELSE \/ /\ \E t \in Threads : pc[t] = "idle"
               /\ sync_in_progress' = TRUE
               /\ button' = [button EXCEPT ![h] = "disabled"]
               /\ progress' = TRUE
               /\ status_label' = BusyText(h)
               /\ pc' = [pc EXCEPT ![NewThread] = "try"]
               /\ act' = [act EXCEPT ![NewThread] = h]
               /\ pos' = [pos EXCEPT ![NewThread] = 1]
               /\ success' = [success EXCEPT ![NewThread] = TRUE]
               /\ results' = [results EXCEPT ![NewThread] = <<>>]
               /\ seen' = [seen EXCEPT ![NewThread] = Unread]
               /\ snapshot' = [snapshot EXCEPT ![NewThread] = fs]
               /\ events' = [events EXCEPT ![NewThread] = <<>>]
               /\ UNCHANGED <<scripts, gui, fs, warning_open, step, proc, last>>
            \/ HandlerFault(h)

sync_cursor == Submit("sync_cursor")
sync_everything == Submit("sync_everything")
export_config == Submit("export_config")
test_integrations == Submit("test_integrations")
generate_summary == Submit("generate_summary")
export_cursor == Submit("export_cursor")
import_cursor == Submit("import_cursor")
simple_generate_summary == Submit("simple_generate_summary")
run_tests == Submit("run_tests")

\* The user closes the warning dialog; the rejected handler returns.
DismissWarning ==
    /\ warning_open
    /\ warning_open' = FALSE
    /\ UNCHANGED <<scripts, gui, fs, sync_in_progress, ui, pc, locals>>

-----------------------------------------------------------------------------
(* Worker thread *)

\* NextStatement with "success = success and self.run_command(...)": once
\* success is False the call is not made.
NextStatementShortCircuit(t) ==
    /\ pc[t] = "try"
    /\ pos[t] <= Len(ThreadBody(act[t]))
    /\ \E answer \in Answers(ThreadBody(act[t])[pos[t]].exists) :
       LET stmt == ThreadBody(act[t])[pos[t]]
           s == IF success[t] THEN Selected(stmt, answer) ELSE NoStep
       IN /\ seen' = IF stmt.exists = "" THEN seen
                     ELSE [seen EXCEPT ![t][stmt.exists] = IF answer THEN "present" ELSE "absent"]
          /\ IF s = NoStep
             THEN /\ pos' = [pos EXCEPT ![t] = @ + 1]
                  /\ UNCHANGED <<pc, step, events>>
             ELSE /\ pc' = [pc EXCEPT ![t] = "run"]
                  /\ step' = [step EXCEPT ![t] = s]
                  /\ events' = [events EXCEPT ![t] = Append(@, StepStarted(s))]
                  /\ UNCHANGED pos
    /\ proc' = [proc EXCEPT ![t] = NoBehaviour]
    /\ last' = [last EXCEPT ![t] = NoResult]
    /\ UNCHANGED <<scripts, gui, fs, sync_in_progress, ui, warning_open, act, success, results, snapshot>>

\* NextStatement for a run_command that spawns the process and returns at
\* once (subprocess.Popen without wait): the body goes on to its next
\* statement while the process runs.
NextStatementNoWait(t) ==
    /\ pc[t] = "try"
    /\ pos[t] <= Len(ThreadBody(act[t]))
    /\ \E answer \in Answers(ThreadBody(act[t])[pos[t]].exists) :
       LET stmt == ThreadBody(act[t])[pos[t]]
           s == Selected(stmt, answer)
       IN /\ seen' = IF stmt.exists = "" THEN seen
                     ELSE [seen EXCEPT ![t][stmt.exists] = IF answer THEN "present" ELSE "absent"]
          /\ pos' = [pos EXCEPT ![t] = @ + 1]
          /\ IF s = NoStep
             THEN UNCHANGED <<step, events>>
             ELSE /\ step' = [step EXCEPT ![t] = s]
                  /\ events' = [events EXCEPT ![t] = Append(@, StepStarted(s))]
    /\ proc' = [proc EXCEPT ![t] = NoBehaviour]
    /\ last' = [last EXCEPT ![t] = NoResult]
    /\ UNCHANGED <<scripts, gui, fs, sync_in_progress, ui, warning_open, pc, act, success, results, snapshot>>

\* NextStatement for a body that decides from the marker files as they were
\* when the button was clicked, not as they are now.
NextStatementSnapshot(t) ==
    /\ pc[t] = "try"
    /\ pos[t] <= Len(ThreadBody(act[t]))
    /\ \E answer \in (LET m == ThreadBody(act[t])[pos[t]].exists
                     IN IF m = "" THEN {TRUE}
                        ELSE IF snapshot[t][m] = "untracked" THEN BOOLEAN
                        ELSE {snapshot[t][m] = "present"}) :
       LET stmt == ThreadBody(act[t])[pos[t]]
           s == Selected(stmt, answer)
       IN /\ seen' = IF stmt.exists = "" THEN seen
                     ELSE [seen EXCEPT ![t][stmt.exists] = IF answer THEN "present" ELSE "absent"]
          /\ IF s = NoStep
             THEN /\ pos' = [pos EXCEPT ![t] = @ + 1]
                  /\ UNCHANGED <<pc, step, events>>
             ELSE /\ pc' = [pc EXCEPT ![t] = "run"]
                  /\ step' = [step EXCEPT ![t] = s]
                  /\ events' = [events EXCEPT ![t] = Append(@, StepStarted(s))]
                  /\ UNCHANGED pos
    /\ proc' = [proc EXCEPT ![t] = NoBehaviour]
    /\ last' = [last EXCEPT ![t] = NoResult]
    /\ UNCHANGED <<scripts, gui, fs, sync_in_progress, ui, warning_open, act, success, results, snapshot>>

\* The worker reaches the next statement of its try body: it asks
\* os.path.exists where the statement has a condition (the marker file is
\* there or not at that moment: answer), and either enters run_command
\* (logging "Running: ...", spawning the process) or goes on.
NextStatement(t) ==
    /\ pc[t] = "try"
    /\ pos[t] <= Len(ThreadBody(act[t]))
    /\ \E answer \in Answers(ThreadBody(act[t])[pos[t]].exists) :
       LET stmt == ThreadBody(act[t])[pos[t]]
           s == Selected(stmt, answer)
       IN /\ seen' = IF stmt.exists = "" THEN seen
                     ELSE [seen EXCEPT ![t][stmt.exists] = IF answer THEN "present" ELSE "absent"]
          /\ IF s = NoStep
             THEN /\ pos' = [pos EXCEPT ![t] = @ + 1]
                  /\ UNCHANGED <<pc, step, events>>
             ELSE /\ pc' = [pc EXCEPT ![t] = "run"]
                  /\ step' = [step EXCEPT ![t] = s]
                  /\ events' = [events EXCEPT ![t] = Append(@, StepStarted(s))]
                  /\ UNCHANGED pos
    /\ proc' = [proc EXCEPT ![t] = NoBehaviour]
    /\ last' = [last EXCEPT ![t] = NoResult]
    /\ UNCHANGED <<scripts, gui, fs, sync_in_progress, ui, warning_open, act, success, results, snapshot>>

\* FinishStep that calls run_command again for a step that failed.
FinishStepRetry(t) ==
    /\ pc[t] = "run"
    /\ \E beh \in Behaviours :
       LET r == run_command(beh, Timeout(gui))
       IN /\ proc' = [proc EXCEPT ![t] = beh]
          /\ last' = [last EXCEPT ![t] = r]
          /\ pc' = [pc EXCEPT ![t] = IF r.value THEN "try" ELSE "run"]
          /\ pos' = [pos EXCEPT ![t] = IF r.value THEN @ + 1 ELSE @]
          /\ success' = [success EXCEPT ![t] = Accumulate(act[t], @, r.value)]
          /\ results' = [results EXCEPT ![t] = Append_results(act[t], @, pos[t], r.value)]
          /\ events' = [events EXCEPT ![t] = Append(@, StepFinished(step[t], r))]
    /\ UNCHANGED <<scripts, gui, fs, sync_in_progress, ui, warning_open, act, step, seen, snapshot>>

\* FinishStep for a body that leaves its sequence of calls at the first
\* failed one ("if not success: break").
FinishStepBreak(t) ==
    /\ pc[t] = "run"
    /\ \E beh \in Behaviours :
       LET r == run_command(beh, Timeout(gui))
       IN /\ proc' = [proc EXCEPT ![t] = beh]
          /\ last' = [last EXCEPT ![t] = r]
          /\ pc' = [pc EXCEPT ![t] = "try"]
          /\ pos' = [pos EXCEPT ![t] = IF r.value THEN @ + 1
                                       ELSE Len(ThreadBody(act[t])) + 1]
          /\ success' = [success EXCEPT ![t] = Accumulate(act[t], @, r.value)]
          /\ results' = [results EXCEPT ![t] = Append_results(act[t], @, pos[t], r.value)]
          /\ events' = [events EXCEPT ![t] = Append(@, StepFinished(step[t], r))]
    /\ UNCHANGED <<scripts, gui, fs, sync_in_progress, ui, warning_open, act, step, seen, snapshot>>

\* subprocess.run is over and run_command returns (or raises) to the body.
FinishStep(t) ==
    /\ pc[t] = "run"
    /\ \E beh \in Behaviours :
       LET r == run_command(beh, Timeout(gui))
       IN /\ proc' = [proc EXCEPT ![t] = beh]
          /\ last' = [last EXCEPT ![t] = r]
          /\ IF r.raised
             THEN /\ pc' = [pc EXCEPT ![t] = "finally"]
                  /\ UNCHANGED <<pos, success, results, events>>
             ELSE /\ pc' = [pc EXCEPT ![t] = "try"]
                  /\ pos' = [pos EXCEPT ![t] = @ + 1]
                  /\ success' = [success EXCEPT ![t] = Accumulate(act[t], @, r.value)]
                  /\ results' = [results EXCEPT ![t] = Append_results(act[t], @, pos[t], r.value)]
                  /\ events' = [events EXCEPT ![t] = Append(@, StepFinished(step[t], r))]
    /\ UNCHANGED <<scripts, gui, fs, sync_in_progress, ui, warning_open, act, step, seen, snapshot>>

\* ShowVerdict placed before the last statement of the body instead of
\* after it.
ShowVerdictEarly(t) ==
    /\ pc[t] = "try"
    /\ pos[t] = Len(ThreadBody(act[t]))
    /\ \A i \in 1..Len(events[t]) : events[t][i].type # "RunFinished"
    /\ events' = [events EXCEPT ![t] = Append(@, Verdict(act[t], success[t], results[t]))]
    /\ proc' = [proc EXCEPT ![t] = NoBehaviour]
    /\ last' = [last EXCEPT ![t] = NoResult]
    /\ UNCHANGED <<scripts, gui, fs, sync_in_progress, ui, warning_open,
                   pc, act, pos, step, success, results, seen, snapshot>>

\* ShowVerdict for a body that clears the flag before it shows the verdict
\* dialog.
ShowVerdictAfterRelease(t) ==
    /\ pc[t] = "try"
    /\ pos[t] > Len(ThreadBody(act[t]))
    /\ sync_in_progress' = FALSE
    /\ events' = [events EXCEPT ![t] = Append(@, Verdict(act[t], success[t], results[t]))]
    /\ pc' = [pc EXCEPT ![t] = "finally"]
    /\ proc' = [proc EXCEPT ![t] = NoBehaviour]
    /\ last' = [last EXCEPT ![t] = NoResult]
    /\ UNCHANGED <<scripts, gui, fs, ui, warning_open,
                   act, pos, step, success, results, seen, snapshot>>

\* The body has run its last statement and shows the verdict dialog.
ShowVerdict(t) ==
    /\ pc[t] = "try"
    /\ pos[t] > Len(ThreadBody(act[t]))
    /\ events' = [events EXCEPT ![t] = Append(@, Verdict(act[t], success[t], results[t]))]
    /\ pc' = [pc EXCEPT ![t] = "finally"]
    /\ proc' = [proc EXCEPT ![t] = NoBehaviour]
    /\ last' = [last EXCEPT ![t] = NoResult]
    /\ UNCHANGED <<scripts, gui, fs, sync_in_progress, ui, warning_open,
                   act, pos, step, success, results, seen, snapshot>>

\* Fault for a body without try/finally: the thread dies where it stands.
FaultNoFinally(t) ==
    /\ pc[t] = "try"
    /\ pc' = [pc EXCEPT ![t] = "idle"]
    /\ act' = [act EXCEPT ![t] = "none"]
    /\ pos' = [pos EXCEPT ![t] = 0]
    /\ step' = [step EXCEPT ![t] = NoStep]
    /\ proc' = [proc EXCEPT ![t] = NoBehaviour]
    /\ last' = [last EXCEPT ![t] = NoResult]
    /\ success' = [success EXCEPT ![t] = TRUE]
    /\ results' = [results EXCEPT ![t] = <<>>]
    /\ seen' = [seen EXCEPT ![t] = Unread]
    /\ snapshot' = [snapshot EXCEPT ![t] = Untracked]
    /\ events' = [events EXCEPT ![t] = <<>>]
    /\ UNCHANGED <<scripts, gui, fs, sync_in_progress, ui, warning_open>>

\* An exception leaves the try body between two run_command calls or at the
\* verdict dialog; control passes to the finally clause.
Fault(t) ==
    /\ pc[t] = "try"
    /\ pc' = [pc EXCEPT ![t] = "finally"]
    /\ proc' = [proc EXCEPT ![t] = NoBehaviour]
    /\ last' = [last EXCEPT ![t] = NoResult]
    /\ UNCHANGED <<scripts, gui, fs, sync_in_progress, ui, warning_open,
                   act, pos, step, success, results, seen, snapshot, events>>

\* finally: self.sync_in_progress = False.  The locals of the body are dead
\* from here on.
Release(t) ==
    /\ pc[t] = "finally"
    /\ sync_in_progress' = FALSE
    /\ pc' = [pc EXCEPT ![t] = "enable_button"]
    /\ pos' = [pos EXCEPT ![t] = 0]
    /\ step' = [step EXCEPT ![t] = NoStep]
    /\ proc' = [proc EXCEPT ![t] = NoBehaviour]
    /\ last' = [last EXCEPT ![t] = NoResult]
    /\ success' = [success EXCEPT ![t] = TRUE]
    /\ results' = [results EXCEPT ![t] = <<>>]
    /\ seen' = [seen EXCEPT ![t] = Unread]
    /\ snapshot' = [snapshot EXCEPT ![t] = Untracked]
    /\ events' = [events EXCEPT ![t] = <<>>]
    /\ UNCHANGED <<scripts, gui, fs, ui, warning_open, act>>

\* finally: self.<button>.config(state='normal')
EnableButton(t) ==
    /\ pc[t] = "enable_button"
    /\ button' = [button EXCEPT ![act[t]] = "normal"]
    /\ pc' = [pc EXCEPT ![t] = "stop_progress"]
    /\ UNCHANGED <<scripts, gui, fs, sync_in_progress, progress, status_label, warning_open, locals>>

\* finally: self.progress.stop()
StopProgress(t) ==
    /\ pc[t] = "stop_progress"
    /\ progress' = FALSE
    /\ pc' = [pc EXCEPT ![t] = "reset_status"]
    /\ UNCHANGED <<scripts, gui, fs, sync_in_progress, button, status_label, warning_open, locals>>

\* finally: self.status_label.config(text=...); the thread ends.
ResetStatus(t) ==
    /\ pc[t] = "reset_status"
    /\ status_label' = ReadyText(gui)
    /\ pc' = [pc EXCEPT ![t] = "idle"]
    /\ act' = [act EXCEPT ![t] = "none"]
    /\ UNCHANGED <<scripts, gui, fs, sync_in_progress, button, progress, warning_open,
                   pos, step, proc, last, success, results, seen, snapshot, events>>

-----------------------------------------------------------------------------

Next ==
    \/ sync_cursor
    \/ sync_everything
    \/ export_config
    \/ test_integrations
    \/ generate_summary
    \/ export_cursor
    \/ import_cursor
    \/ simple_generate_summary
    \/ run_tests
    \/ DismissWarning
    \/ \E t \in Threads : NextStatement(t)
    \/ \E t \in Threads : FinishStep(t)
    \/ \E t \in Threads : ShowVerdict(t)
    \/ \E t \in Threads : Fault(t)
    \/ \E t \in Threads : Release(t)
    \/ \E t \in Threads : EnableButton(t)
    \/ \E t \in Threads : StopProgress(t)
    \/ \E t \in Threads : ResetStatus(t)

Spec == Init /\ [][Next]_vars

\* The steps of a worker thread are scheduled by the operating system, every
\* subprocess.run call ends (at the latest when its timeout expires) and
\* every Tk call returns: a thread that can take a step in its body or its
\* finally clause eventually takes one.
Progress(t) ==
    \/ NextStatement(t)
    \/ FinishStep(t)
    \/ ShowVerdict(t)
    \/ Release(t)
    \/ EnableButton(t)
    \/ StopProgress(t)
    \/ ResetStatus(t)

FairSpec == Spec /\ \A t \in Threads : WF_vars(Progress(t))

\* The marker file the second specification follows: the one both
\* sync_everything and export_config ask for first after a command has run.
TrackedMarkers == {"machine-sync-config.json"}

\* The window has been built in a directory whose tracked marker files are
\* there or not.
InitTracked ==
    /\ ScriptsOff
    /\ gui \in {"sync", "simple"}
    /\ fs \in {f \in [Markers -> {"present", "absent", "untracked"}] :
                \A m \in Markers : f[m] = "untracked" <=> m \notin TrackedMarkers}
    /\ sync_in_progress = FALSE
    /\ button = [h \in Handlers |-> "normal"]
    /\ progress = FALSE
    /\ status_label = ReadyText(gui)
    /\ warning_open = FALSE
    /\ pc = [t \in Threads |-> "idle"]
    /\ act = [t \in Threads |-> "none"]
    /\ pos = [t \in Threads |-> 0]
    /\ step = [t \in Threads |-> NoStep]
    /\ proc = [t \in Threads |-> NoBehaviour]
    /\ last = [t \in Threads |-> NoResult]
    /\ success = [t \in Threads |-> TRUE]
    /\ results = [t \in Threads |-> <<>>]
    /\ seen = [t \in Threads |-> Unread]
    /\ snapshot = [t \in Threads |-> Untracked]
    /\ events = [t \in Threads |-> <<>>]

\* A marker file is created or removed while a spawned command is running
\* (by that command: sync-machines and sync-tools write the files their
\* markers name, or by anything else on the machine).
FsChange ==
    /\ \E t \in Threads : pc[t] = "run"
    /\ \E m \in Markers :
        /\ fs[m] # "untracked"
        /\ fs' = [fs EXCEPT ![m] = IF @ = "present" THEN "absent" ELSE "present"]
    /\ UNCHANGED <<scripts, gui, sync_in_progress, ui, warning_open, pc, locals>>

NextTracked == Next \/ FsChange

FsSpec == InitTracked /\ [][NextTracked]_vars

-----------------------------------------------------------------------------
(* scripts/quick_test.py *)

\* The list tests of main.
tests ==
    << [command |-> "npm run sync-cursor export", description |-> "Cursor Config Export"],
       [command |-> "npm run generate-summary", description |-> "Generate Summary"],
       [command |-> "npm run build", description |-> "TypeScript Build"],
       [command |-> "npm run lint", description |-> "Code Linting"] >>

\* total = len(tests)
total == Len(tests)

\* run_test without timeout=: a slow process is waited for and judged by its
\* exit status.
run_testNoTimeout(beh) ==
    IF ~beh.launched THEN [value |-> FALSE, line |-> "ERROR"]
    ELSE IF beh.returncode = 0 THEN [value |-> TRUE, line |-> "PASSED"]
    ELSE [value |-> FALSE, line |-> "FAILED"]

\* run_test: subprocess.run raises for a process that cannot be launched and
\* for one that outlives the timeout, both caught by "except Exception"
\* (ERROR, False); otherwise the exit status decides (PASSED, True or FAILED,
\* False).
run_test(beh) ==
    IF ~beh.launched THEN [value |-> FALSE, line |-> "ERROR"]
    ELSE IF beh.duration > QuickTimeout THEN [value |-> FALSE, line |-> "ERROR"]
    ELSE IF beh.returncode = 0 THEN [value |-> TRUE, line |-> "PASSED"]
    ELSE [value |-> FALSE, line |-> "FAILED"]

\* The windows are not open: their variables stay at rest.
WindowsOff ==
    /\ gui = "none"
    /\ fs = Untracked
    /\ sync_in_progress = FALSE
    /\ button = [h \in Handlers |-> "normal"]
    /\ progress = FALSE
    /\ status_label = ""
    /\ warning_open = FALSE
    /\ pc = [t \in Threads |-> "idle"]
    /\ act = [t \in Threads |-> "none"]
    /\ pos = [t \in Threads |-> 0]
    /\ step = [t \in Threads |-> NoStep]
    /\ proc = [t \in Threads |-> NoBehaviour]
    /\ last = [t \in Threads |-> NoResult]
    /\ success = [t \in Threads |-> TRUE]
    /\ results = [t \in Threads |-> <<>>]
    /\ seen = [t \in Threads |-> Unread]
    /\ snapshot = [t \in Threads |-> Untracked]
    /\ events = [t \in Threads |-> <<>>]

\* main of quick_test.py has set passed = 0 and is about to enter its loop.
InitQuickTest ==
    /\ WindowsOff
    /\ SetupEnvOff
    /\ qt_pc = "tests"
    /\ passed = 0
    /\ ran = <<>>
    /\ printed = <<>>

\* One iteration of "for command, description in tests": run_test is called
\* for the next test of the list and passed is incremented when it returns
\* True.
RunTest ==
    /\ qt_pc = "tests"
    /\ Len(ran) < total
    /\ \E beh \in Behaviours :
        /\ ran' = Append(ran, beh)
        /\ passed' = IF run_test(beh).value THEN passed + 1 ELSE passed
        /\ printed' = Append(printed, run_test(beh).line)
    /\ UNCHANGED <<windows, setup, qt_pc>>

\* After the loop: the results line and the verdict of main.
ReportResults ==
    /\ qt_pc = "tests"
    /\ Len(ran) = total
    /\ printed' = Append(printed, IF passed = total THEN "All tests passed"
                                  ELSE "Some tests failed")
    /\ qt_pc' = "done"
    /\ UNCHANGED <<windows, setup, passed, ran>>

NextQuickTest == RunTest \/ ReportResults

QuickTestSpec == InitQuickTest /\ [][NextQuickTest]_vars

-----------------------------------------------------------------------------
(* scripts/setup_env.py *)

\* Texts are sequences of one-character strings.
\* env_content of create_env_file, shortened to one line of the template:
\* like every credential line of the original it holds a "your-" placeholder.
env_content == << "I", "D", "=", "y", "o", "u", "r", "-", "i", "d" >>

\* The literal 'your-' of check_env_file.
Placeholder == << "y", "o", "u", "r", "-" >>

\* pattern in content
Contains(content, pattern) ==
    \E i \in 0..Len(content) :
        /\ i + Len(pattern) <= Len(content)
        /\ SubSeq(content, i + 1, i + Len(pattern)) = pattern

\* str.lower() on the letters the inputs are made of.
LowerChar(c) ==
    CASE c = "Y" -> "y"
      [] c = "E" -> "e"
      [] c = "S" -> "s"
      [] c = "N" -> "n"
      [] OTHER -> c

lower(text) == [i \in 1..Len(text) |-> LowerChar(text[i])]

\* What the user may type at the prompt of main.
Responses ==
    { <<>>, << "y" >>, << "Y" >>, << "n" >>, << "N" >>, << "y", "e", "s" >>,
      << "Y", "E", "S" >>, << " ", "y" >> }

\* The command lines setup_env.py is started with.
CommandLines ==
    { << "setup_env.py" >>, << "setup_env.py", "--check" >>,
      << "setup_env.py", "--force" >>, << "setup_env.py", "-v", "--check" >> }

\* What other programs (an editor, rm) leave in .env.
EditedFiles ==
    { Absent,
      [exists |-> TRUE, content |-> <<>>],
      [exists |-> TRUE, content |-> << "I", "D", "=", "4", "2" >>],
      [exists |-> TRUE, content |-> << "I", "D", "=", "y", "o", "u", "r" >>],
      [exists |-> TRUE, content |-> << "#", "y", "o", "u", "r", "-", "s" >>] }

\* len(sys.argv) > 1 and sys.argv[1] == '--check' (sys.argv[1] is the second
\* element of the sequence).
CheckMode(args) == Len(args) > 1 /\ args[2] = "--check"

\* A main that takes everything but "n" for a yes.
ConfirmedUnlessNo(text) == lower(text) # << "n" >>

\* The negation of "response.lower() != 'y'".
Confirmed(text) == lower(text) = << "y" >>

\* check_env_file on the file as it is, readable or not: value is what it
\* returns, line what it prints.
check_env_file(file, readable) ==
    IF ~file.exists THEN [value |-> FALSE, line |-> "not found"]
    ELSE IF ~readable THEN [value |-> FALSE, line |-> "error reading"]
    ELSE IF Contains(file.content, Placeholder)
         THEN [value |-> FALSE, line |-> "contains placeholder values"]
    ELSE [value |-> TRUE, line |-> "appears to be configured"]

\* The interpreter starts main with a command line.
StartSetup ==
    /\ se_pc \in {"off", "done"}
    /\ \E args \in CommandLines :
        /\ argv' = args
        /\ se_pc' = IF CheckMode(args) THEN "check" ELSE "exists"
    /\ response' = <<>>
    /\ wrote' = FALSE
    /\ se_out' = NoOut
    /\ UNCHANGED <<windows, quick, env_file>>

\* The --check branch of main: check_env_file().
CheckEnvFile ==
    /\ se_pc = "check"
    /\ \E readable \in BOOLEAN : se_out' = check_env_file(env_file, readable)
    /\ se_pc' = "done"
    /\ UNCHANGED <<windows, quick, argv, env_file, response, wrote>>

\* "if os.path.exists('.env')" of main: the prompt follows when it does.
TestExists ==
    /\ se_pc = "exists"
    /\ se_pc' = IF env_file.exists THEN "ask" ELSE "create"
    /\ UNCHANGED <<windows, quick, argv, env_file, response, wrote, se_out>>

\* The prompt of main: anything whose lower case is not "y" aborts.
Ask ==
    /\ se_pc = "ask"
    /\ \E text \in Responses :
        /\ response' = text
        /\ IF Confirmed(text)
           THEN se_pc' = "create" /\ UNCHANGED se_out
           ELSE se_pc' = "done" /\ se_out' = [value |-> FALSE, line |-> "Aborted"]
    /\ UNCHANGED <<windows, quick, argv, env_file, wrote>>

\* create_env_file: open(..., 'w') truncates the file and write fills it;
\* either may raise, which "except Exception" turns into False.
create_env_file ==
    /\ se_pc = "create"
    /\ \/ /\ env_file' = [exists |-> TRUE, content |-> env_content]
          /\ wrote' = TRUE
          /\ se_out' = [value |-> TRUE, line |-> "Created"]
       \/ /\ UNCHANGED <<env_file, wrote>>
          /\ se_out' = [value |-> FALSE, line |-> "Failed to create"]
       \/ /\ env_file' = [exists |-> TRUE, content |-> <<>>]
          /\ wrote' = TRUE
          /\ se_out' = [value |-> FALSE, line |-> "Failed to create"]
    /\ se_pc' = "done"
    /\ UNCHANGED <<windows, quick, argv, response>>

\* Another program writes or removes .env.
EditEnv ==
    /\ se_pc # "off"
    /\ \E file \in EditedFiles : env_file' = file
    /\ UNCHANGED <<windows, quick, se_pc, argv, response, wrote, se_out>>

\* setup_env.py is about to be started in a directory with any .env.
InitSetupEnv ==
    /\ WindowsOff
    /\ QuickTestOff
    /\ se_pc = "off"
    /\ argv = <<>>
    /\ env_file \in EditedFiles \cup {[exists |-> TRUE, content |-> env_content]}
    /\ response = <<>>
    /\ wrote = FALSE
    /\ se_out = NoOut

NextSetupEnv ==
    \/ StartSetup
    \/ CheckEnvFile
    \/ TestExists
    \/ Ask
    \/ create_env_file
    \/ EditEnv

SetupEnvSpec == InitSetupEnv /\ [][NextSetupEnv]_vars

-----------------------------------------------------------------------------
(* Vocabulary of the properties *)

\* Thread t holds the flag: it is between its admission and the first
\* statement of its finally clause.
Executing(t) == pc[t] \in {"try", "run", "finally"}

\* Thread t has shown its verdict dialog (and not yet released the flag).
VerdictShown(t) ==
    /\ pc[t] = "finally"
    /\ events[t] # <<>>
    /\ events[t][Len(events[t])].type = "RunFinished"

OfType(es, type) == SelectSeq(es, LAMBDA e : e.type = type)

\* The StepFinished events of thread t, in the order they were produced.
Finished(t) == OfType(events[t], "StepFinished")

Started(t) == OfType(events[t], "StepStarted")

NamesOf(es) == [i \in 1..Len(es) |-> es[i].name]

RECURSIVE FailedOf(_)
\* The names of the events of es that report a failure, in order.
FailedOf(es) ==
    IF es = <<>> THEN <<>>
    ELSE (IF Head(es).succeeded THEN <<>> ELSE <<Head(es).name>>) \o FailedOf(Tail(es))

AllSucceeded(es) == \A i \in 1..Len(es) : es[i].succeeded

\* The run_command call of thread t is just over: proc[t] is what its
\* process did and last[t] what the call made of it.
CallOver(t) == last[t].logged # "none" \/ last[t].raised

\* failure_kind of a StepOutcome, read off the final log line of run_command.
FailureKind(r) ==
    CASE r.logged = "timed_out"        -> "Timeout"
      [] r.logged = "failed_with_code" -> "NonZeroExit"
      [] r.logged = "failed"           -> "LaunchError"
      [] OTHER                         -> "absent"

\* The process exited with status zero within the timeout.
ExitedZeroInTime(beh, timeout) ==
    beh.launched /\ beh.duration <= timeout /\ beh.returncode = 0

RECURSIVE PlanFrom(_, _)
\* The steps the statements of body select under the answers sn that
\* os.path.exists gave, in program order.
PlanFrom(body, sn) ==
    IF body = <<>> THEN <<>>
    ELSE LET stmt == Head(body)
             s == IF stmt.exists = "" THEN stmt.present
                  ELSE IF sn[stmt.exists] = "present" THEN stmt.present
                  ELSE stmt.absent
         IN (IF s = NoStep THEN <<>> ELSE <<s>>) \o PlanFrom(Tail(body), sn)

\* The Plan of the run of thread t.
Plan(t) == PlanFrom(ThreadBody(act[t]), seen[t])

Descriptions(steps) == [i \in 1..Len(steps) |-> steps[i].description]

Commands(steps) == [i \in 1..Len(steps) |-> steps[i].command]

-----------------------------------------------------------------------------
(* Properties *)

\* C1: at most one worker thread executes a Plan at any instant, and a worker
\* thread comes to life only in a step that finds sync_in_progress false and
\* sets it: a click rejected while the flag was set starts nothing, then or
\* later, so no second verdict can precede the first run's release.
C1_OneRunAtATime ==
    /\ [](Cardinality({t \in Threads : Executing(t)}) <= 1)
    /\ [][\A t \in Threads :
            (pc[t] = "idle" /\ pc'[t] # "idle")
            => (~sync_in_progress /\ sync_in_progress' /\ Executing(t)')]_vars

\* A click has been rejected while a worker thread is inside run_command.
C1_Witness == warning_open /\ \E t \in Threads : pc[t] = "run"

\* C2: a click handled while sync_in_progress is true only raises the
\* warning: the flag stays true, the widgets, every worker thread and every
\* event list are left as they were.
C2_RejectedChangesNothing ==
    [][\A h \in Handlers :
        (Submit(h) /\ sync_in_progress)
        => /\ warning_open'
           /\ sync_in_progress'
           /\ UNCHANGED <<scripts, gui, fs, sync_in_progress, ui, pc, locals>>]_vars

\* A click has been rejected while a run was between two of its steps.
C2_Witness ==
    /\ warning_open
    /\ sync_in_progress
    /\ \E t \in Threads : pc[t] = "try" /\ Len(Finished(t)) >= 1

\* C3: a worker thread that holds the flag eventually clears it, whichever
\* way its body ends; it leaves the flag cleared when it stops holding it,
\* and a click handled while the flag is clear is admitted.
C3_GuardAlwaysReleased ==
    /\ \A t \in Threads : Executing(t) ~> ~sync_in_progress
    /\ [][\A t \in Threads :
            (Executing(t) /\ ~Executing(t)')
            => (pc[t] = "finally" /\ ~sync_in_progress')]_vars
    /\ [][\A t \in Threads :
            (pc[t] \in {"try", "run"} /\ pc'[t] \notin {"try", "run"})
            => pc'[t] = "finally"]_vars
    /\ [][\A h \in Handlers :
            (Submit(h) /\ ~sync_in_progress)
            => (sync_in_progress' /\ ~warning_open')]_vars

\* A thread has released the flag and, while it is still restoring its
\* widgets, the next click has been admitted.
C3_Witness ==
    \E t, u \in Threads :
        /\ pc[t] = "enable_button"
        /\ pc[u] = "try"
        /\ act[u] # act[t]
        /\ sync_in_progress

\* C4: whatever run_command returns, the body goes on with its next
\* statement, and a statement is passed over only because of what
\* os.path.exists answered, never because an earlier step failed.
C4_ContinueOnFailure ==
    /\ [][\A t \in Threads :
            (pc[t] = "run" /\ pc'[t] # "run")
            => (pc'[t] = "try" /\ pos'[t] = pos[t] + 1)]_vars
    /\ [][\A t \in Threads :
            (pc[t] = "try" /\ pc'[t] = "try" /\ pos'[t] = pos[t] + 1)
            => LET stmt == ThreadBody(act[t])[pos[t]]
               IN /\ stmt.exists # ""
                  /\ Selected(stmt, seen'[t][stmt.exists] = "present") = NoStep]_vars
    /\ [](\A t \in Threads : VerdictShown(t) => Len(Finished(t)) = Len(Plan(t)))

\* A run has shown its verdict after a step failed and a later one ran.
C4_Witness ==
    \E t \in Threads :
        /\ VerdictShown(t)
        /\ \E i, j \in 1..Len(Finished(t)) :
            i < j /\ ~Finished(t)[i].succeeded /\ Finished(t)[j].succeeded

\* C5: the verdict reports success (showinfo) exactly when every step the
\* run executed succeeded.
C5_AggregateIsConjunction ==
    \A t \in Threads :
        VerdictShown(t)
        => (events[t][Len(events[t])].box = "showinfo" <=> AllSucceeded(Finished(t)))

\* A multi-step run whose first step failed and whose last step succeeded
\* has reported failure.
C5_Witness ==
    \E t \in Threads :
        /\ VerdictShown(t)
        /\ Len(Finished(t)) >= 3
        /\ ~Finished(t)[1].succeeded
        /\ Finished(t)[Len(Finished(t))].succeeded
        /\ events[t][Len(events[t])].box = "showerror"

\* The name a step goes by in a verdict: a health check goes by the name
\* of its integration, any other step by its description.
StepName(description) ==
    IF \E i \in 1..Len(integrations) : TestStep(i).description = description
    THEN integrations[CHOOSE i \in 1..Len(integrations) :
                        TestStep(i).description = description].name
    ELSE description

\* The names of the steps of thread t that failed, in step order.
FailedSteps(t) ==
    LET failed == FailedOf(Finished(t))
    IN [i \in 1..Len(failed) |-> StepName(failed[i])]

C7_EachStepOnce ==
    \A t \in Threads :
        /\ VerdictShown(t)
            => /\ NamesOf(Finished(t)) = Descriptions(Plan(t))
               /\ NamesOf(Started(t)) = Descriptions(Plan(t))
               /\ Len(events[t]) = 2 * Len(Plan(t)) + 1
        /\ \A i \in 1..Len(events[t]) :
            events[t][i].type = "StepFinished"
            => /\ i > 1
               /\ events[t][i - 1].type = "StepStarted"
               /\ events[t][i - 1].name = events[t][i].name

\* A run of four steps with failures among them has shown its verdict.
C7_Witness ==
    \E t \in Threads :
        /\ VerdictShown(t)
        /\ Len(Plan(t)) = 4
        /\ ~AllSucceeded(Finished(t))

\* C8: a run_command call whose process outlives the timeout returns False
\* after logging "timed out", the step is reported as failed, and the body
\* is at its next statement (or at its verdict).
C8_TimeoutIsFailure ==
    \A t \in Threads :
        (CallOver(t) /\ proc[t].launched /\ proc[t].duration > Timeout(gui))
        => /\ ~last[t].raised
           /\ ~last[t].value
           /\ FailureKind(last[t]) = "Timeout"
           /\ pc[t] = "try"
           /\ pos[t] >= 2
           /\ events[t][Len(events[t])] =
                [type |-> "StepFinished", name |-> step[t].description, succeeded |-> FALSE]

\* A step in the middle of a Plan has timed out although its process would
\* have exited with status zero.
C8_Witness ==
    \E t \in Threads :
        /\ CallOver(t)
        /\ proc[t].launched
        /\ proc[t].duration > Timeout(gui)
        /\ proc[t].returncode = 0
        /\ pos[t] = 3
        /\ pos[t] <= Len(ThreadBody(act[t]))

SyncEverythingPlan(sn) ==
    << IF sn["cursor-config"] = "present"
       THEN "npm run sync-cursor import" ELSE "npm run sync-cursor export" >>
    \o (IF sn["machine-sync-config.json"] = "present"
        THEN << "npm run sync-machines" >> ELSE <<>>)
    \o (IF sn["tool-sync-config.json"] = "present"
        THEN << "npm run sync-tools" >> ELSE <<>>)
    \o << "npm run generate-summary" >>

\* The commands thread t has started so far, in order.
CommandsStarted(t) ==
    LET CommandOf(description) ==
            (CHOOSE s \in {ImportCursor, ExportCursor, SyncMachines, SyncTools,
                           GenerateMachines, GenerateTools, GenerateSummary,
                           RunProjectTests} \cup {TestStep(i) : i \in 1..Len(integrations)} :
                s.description = description).command
    IN [i \in 1..Len(Started(t)) |-> CommandOf(Started(t)[i].name)]

\* C10: a sync_everything run that reaches its verdict has run the import
\* (marker present) or export (absent) of the Cursor configuration, then
\* sync-machines iff its marker was present, then sync-tools iff its marker
\* was present, then generate-summary, in this order and nothing else.
C10_SyncEverythingPlan ==
    \A t \in Threads :
        (VerdictShown(t) /\ act[t] = "sync_everything")
        => /\ \A m \in Markers : seen[t][m] # "unread"
           /\ CommandsStarted(t) = SyncEverythingPlan(seen[t])

\* The run of the specification's scenario: only cursor-config present; the
\* Plan was import, then generate-summary.
C10_Witness ==
    \E t \in Threads :
        /\ VerdictShown(t)
        /\ act[t] = "sync_everything"
        /\ seen[t] = [m \in Markers |-> IF m = "cursor-config" THEN "present" ELSE "absent"]
        /\ CommandsStarted(t) = << "npm run sync-cursor import", "npm run generate-summary" >>

\* Every answer os.path.exists can give for the three marker files.
Snapshots == [Markers -> {"present", "absent"}]

Range(seq) == {seq[i] : i \in 1..Len(seq)}

\* The Plan of the specification's table for export-all when os.path.exists
\* answers sn: the commands, in order.
ExportConfigPlan(sn) ==
    << "npm run sync-cursor export" >>
    \o (IF sn["machine-sync-config.json"] = "absent"
        THEN << "npm run sync-machines" >> ELSE <<>>)
    \o (IF sn["tool-sync-config.json"] = "absent"
        THEN << "npm run sync-tools" >> ELSE <<>>)
    \o << "npm run generate-summary" >>

\* Under the same answers, the body of export_config runs sync-machines
\* (sync-tools) exactly when the body of sync_everything does not.
ExportNegatesSyncEverything ==
    \A sn \in Snapshots : \A c \in {"npm run sync-machines", "npm run sync-tools"} :
        c \in Range(Commands(PlanFrom(ThreadBody("export_config"), sn)))
        <=> c \notin Range(Commands(PlanFrom(ThreadBody("sync_everything"), sn)))

\* C11: an export_config run that reaches its verdict has run the export of
\* the Cursor configuration without asking for the cursor-config marker, then
\* sync-machines iff its marker was absent, then sync-tools iff its marker
\* was absent, then generate-summary, in this order and nothing else; under
\* the same answers, export_config runs sync-machines (sync-tools) exactly
\* when sync_everything does not.
C11_ExportConfigPlan ==
    /\ \A t \in Threads :
        (VerdictShown(t) /\ act[t] = "export_config")
        => /\ seen[t]["cursor-config"] = "unread"
           /\ seen[t]["machine-sync-config.json"] # "unread"
           /\ seen[t]["tool-sync-config.json"] # "unread"
           /\ CommandsStarted(t) = ExportConfigPlan(seen[t])
           /\ CommandsStarted(t)[1] = "npm run sync-cursor export"
    /\ ExportNegatesSyncEverything

\* An export_config run that found the machine marker present and the tool
\* marker absent has run export, sync-tools and generate-summary.
C11_Witness ==
    \E t \in Threads :
        /\ VerdictShown(t)
        /\ act[t] = "export_config"
        /\ seen[t]["machine-sync-config.json"] = "present"
        /\ seen[t]["tool-sync-config.json"] = "absent"
        /\ CommandsStarted(t) = << "npm run sync-cursor export", "npm run sync-tools",
                                   "npm run generate-summary" >>

\* Under any two sets of answers that agree on cursor-config the body of
\* sync_cursor selects the same single step, and the body of generate_summary
\* selects generate-summary under every set of answers.
SingleStepBodies ==
    \A sn, sm \in Snapshots :
        /\ sn["cursor-config"] = sm["cursor-config"]
            => PlanFrom(ThreadBody("sync_cursor"), sn) = PlanFrom(ThreadBody("sync_cursor"), sm)
        /\ Len(PlanFrom(ThreadBody("sync_cursor"), sn)) = 1
        /\ Commands(PlanFrom(ThreadBody("generate_summary"), sn))
             = << "npm run generate-summary" >>

\* C12: a sync_cursor run that reaches its verdict has run exactly one
\* command, the import of the Cursor configuration when cursor-config was
\* there and its export when it was not, and has not asked for the other two
\* markers; a generate_summary run has run exactly generate-summary and has
\* asked for no marker.  Under any two sets of answers that agree on
\* cursor-config the body of sync_cursor selects the same steps, and the body
\* of generate_summary selects the same step under every set of answers.
C12_SingleStepPlans ==
    /\ \A t \in Threads :
        (VerdictShown(t) /\ act[t] = "sync_cursor")
        => /\ seen[t]["cursor-config"] # "unread"
           /\ seen[t]["machine-sync-config.json"] = "unread"
           /\ seen[t]["tool-sync-config.json"] = "unread"
           /\ CommandsStarted(t) =
                << IF seen[t]["cursor-config"] = "present"
                   THEN "npm run sync-cursor import"
                   ELSE "npm run sync-cursor export" >>
           /\ NamesOf(Started(t)) =
                << IF seen[t]["cursor-config"] = "present"
                   THEN "Import Cursor configuration"
                   ELSE "Export Cursor configuration" >>
    /\ \A t \in Threads :
        (VerdictShown(t) /\ act[t] = "generate_summary")
        => /\ seen[t] = Unread
           /\ CommandsStarted(t) = << "npm run generate-summary" >>
    /\ SingleStepBodies

\* A sync_cursor run that found no cursor-config has exported and shown its
\* verdict.
C12_Witness ==
    \E t \in Threads :
        /\ VerdictShown(t)
        /\ act[t] = "sync_cursor"
        /\ seen[t]["cursor-config"] = "absent"
        /\ CommandsStarted(t) = << "npm run sync-cursor export" >>

\* The integrations of the specification, in configuration order.
ConfiguredIntegrations == << "Google Workspace", "MindPal", "DeerFlow", "Render", "Make.com" >>

\* seq is an initial part of whole.
IsPrefix(seq, whole) ==
    /\ Len(seq) <= Len(whole)
    /\ \A i \in 1..Len(seq) : seq[i] = whole[i]

\* C13: a test_integrations run asks for no marker and starts the health
\* checks of Google Workspace, MindPal, DeerFlow, Render and Make.com in this
\* order; when it shows its verdict it has run all five whatever failed
\* (five StepFinished events), and the verdict names as many steps as failed.
C13_TestIntegrationsPlan ==
    \A t \in Threads :
        act[t] = "test_integrations" /\ pc[t] \in {"try", "run", "finally"}
        => /\ seen[t] = Unread
           /\ IsPrefix([i \in 1..Len(Started(t)) |-> StepName(Started(t)[i].name)],
                       ConfiguredIntegrations)
           /\ \A i \in 1..Len(Started(t)) : Started(t)[i].name = "Test " \o ConfiguredIntegrations[i]
           /\ VerdictShown(t)
                => /\ Len(Started(t)) = 5
                   /\ Len(Finished(t)) = 5
                   /\ Len(events[t][Len(events[t])].failed)
                        = Cardinality({i \in 1..5 : ~Finished(t)[i].succeeded})
                   /\ \A sn \in Snapshots :
                        NamesOf(Started(t)) = Descriptions(PlanFrom(ThreadBody(act[t]), sn))

\* A test_integrations run in which three health checks failed, the first
\* among them, has run all five and shown a verdict naming three.
C13_Witness ==
    \E t \in Threads :
        /\ VerdictShown(t)
        /\ act[t] = "test_integrations"
        /\ Len(Finished(t)) = 5
        /\ ~Finished(t)[1].succeeded
        /\ Cardinality({i \in 1..5 : ~Finished(t)[i].succeeded}) = 3
        /\ Len(events[t][Len(events[t])].failed) = 3

\* C15: a run that has reached its finally clause, by the end of its body or
\* by an exception, has shown exactly one verdict dialog, as its last event.
C15_OneVerdictPerRun ==
    \A t \in Threads :
        pc[t] = "finally"
        => /\ Len(OfType(events[t], "RunFinished")) = 1
           /\ events[t][Len(events[t])].type = "RunFinished"

\* The marker files as they were when the button of thread t's run was
\* clicked; for a marker the model does not follow, what the run was answered.
AtClick(t) ==
    [m \in Markers |-> IF snapshot[t][m] = "untracked" THEN seen[t][m] ELSE snapshot[t][m]]

C19_PartialOutputKept ==
    \A t \in Threads :
        (CallOver(t) /\ proc[t].launched /\ proc[t].duration > Timeout(gui))
        => last[t].output = proc[t].output

\* C18: the events of a run are StepStarted, StepFinished, StepStarted,
\* StepFinished, ... with each StepFinished naming the step of the
\* StepStarted right before it, the steps in the order of the body, and the
\* verdict, if any, comes last, right after a StepFinished; once the verdict
\* is shown the run produces no further event.
C18_EventOrder ==
    /\ [](\A t \in Threads : \A i \in 1..Len(events[t]) :
            LET e == events[t][i]
            IN /\ e.type = "StepStarted"
                    => /\ i % 2 = 1
                       /\ i < Len(events[t])
                            => /\ events[t][i + 1].type = "StepFinished"
                               /\ events[t][i + 1].name = e.name
                       /\ i = Len(events[t]) => pc[t] = "run"
               /\ e.type = "StepFinished"
                    => /\ i % 2 = 0
                       /\ events[t][i - 1].type = "StepStarted"
               /\ e.type = "RunFinished"
                    => /\ i = Len(events[t])
                       /\ i > 1
                       /\ events[t][i - 1].type = "StepFinished"
                       /\ pc[t] = "finally")
    /\ [](\A t \in Threads : \A i, j \in 1..Len(Started(t)) :
            i < j => \E k, l \in 1..Len(ThreadBody(act[t])) :
                        /\ k < l
                        /\ Started(t)[i].name \in
                             {ThreadBody(act[t])[k].present.description,
                              ThreadBody(act[t])[k].absent.description}
                        /\ Started(t)[j].name \in
                             {ThreadBody(act[t])[l].present.description,
                              ThreadBody(act[t])[l].absent.description})
    /\ [][\A t \in Threads :
            VerdictShown(t) => (events'[t] = events[t] \/ events'[t] = <<>>)]_vars
    /\ [][\A t \in Threads :
            (events'[t] # events[t] /\ events'[t] # <<>>)
            => /\ Len(events'[t]) = Len(events[t]) + 1
               /\ SubSeq(events'[t], 1, Len(events[t])) = events[t]]_vars

\* An export_config run of four steps has shown its verdict as its ninth
\* event.
C18_Witness ==
    \E t \in Threads :
        /\ VerdictShown(t)
        /\ act[t] = "export_config"
        /\ Len(events[t]) = 9
        /\ events[t][8].type = "StepFinished"
        /\ events[t][7].name = "Generate project summary"

\* The processes thread t has spawned and not yet seen end.
InFlight(t) == Len(Started(t)) - Len(Finished(t))

\* C20: at most one spawned process is in flight at any instant, over all
\* threads; a thread has one in flight exactly while it is inside
\* run_command, and it enters run_command only when no process is in flight
\* anywhere.
C20_OneProcessInFlight ==
    /\ [](\A t \in Threads :
            /\ Len(Finished(t)) <= Len(Started(t))
            /\ InFlight(t) = (IF pc[t] = "run" THEN 1 ELSE 0))
    /\ [](\A t, u \in Threads : (InFlight(t) = 1 /\ InFlight(u) = 1) => t = u)
    /\ [](Cardinality({t \in Threads : pc[t] = "run"}) <= 1)
    /\ [][\A t \in Threads :
            Len(Started(t)') > Len(Started(t))
            => /\ \A u \in Threads : InFlight(u) = 0
               /\ pc'[t] = "run"]_vars

\* The third command of a run is in flight while the thread of the run
\* before is still restoring its widgets.
C20_Witness ==
    \E t, u \in Threads :
        /\ pc[t] = "run"
        /\ Len(Finished(t)) = 2
        /\ InFlight(t) = 1
        /\ pc[u] = "stop_progress"

\* C21: while a worker thread holds the flag, the status label shows the
\* busy text of its handler (never the ready text) and the progress bar is
\* running.
C21_StatusFollowsGuard ==
    \A t \in Threads :
        Executing(t)
        => /\ sync_in_progress
           /\ progress
           /\ status_label = BusyText(act[t])
           /\ status_label # ReadyText(gui)

\* C22: in every state a command is running only while the flag is set, and
\* the flag is set only while a worker thread exists that has not yet passed
\* the first statement of its finally clause.
C22_GuardMatchesRun ==
    /\ \A t \in Threads : pc[t] \in {"try", "run"} => sync_in_progress
    /\ sync_in_progress => \E t \in Threads : Executing(t)

\* C23: a worker thread produces an event only while it holds the flag and
\* keeps holding it after the event; no two threads have events at the same
\* time; and when a thread stops holding the flag no thread has produced an
\* event of a later run.
C23_StreamsDoNotInterleave ==
    /\ [][\A t \in Threads :
            (events'[t] # events[t] /\ events'[t] # <<>>)
            => /\ sync_in_progress /\ sync_in_progress'
               /\ Executing(t) /\ Executing(t)'
               /\ \A u \in Threads \ {t} : events[u] = <<>> /\ ~Executing(u)]_vars
    /\ [](\A t \in Threads : events[t] # <<>> => (Executing(t) /\ sync_in_progress))
    /\ [](\A t, u \in Threads : (events[t] # <<>> /\ events[u] # <<>>) => t = u)
    /\ [][\A t \in Threads :
            (Executing(t) /\ ~Executing(t)')
            => \A u \in Threads : events'[u] = <<>>]_vars

\* A later run has produced events while the thread of the run before is
\* still restoring its widgets.
C23_Witness ==
    \E t, u \in Threads :
        /\ pc[u] = "reset_status"
        /\ act[u] = "test_integrations"
        /\ act[t] = "sync_everything"
        /\ Len(events[t]) >= 3

\* A sequence of commands of the shape of a multi-step Plan: two to four
\* commands, a sync-cursor command first, generate-summary last, and
\* sync-machines before sync-tools where both occur.
MultiStepShape(cs) ==
    /\ Len(cs) \in 2..4
    /\ cs[1] \in {"npm run sync-cursor import", "npm run sync-cursor export"}
    /\ cs[Len(cs)] = "npm run generate-summary"
    /\ \A i, j \in 1..Len(cs) :
        (cs[i] = "npm run sync-machines" /\ cs[j] = "npm run sync-tools") => i < j

\* Whatever os.path.exists answers, no body selects an empty sequence of
\* steps, the bodies of sync_cursor and generate_summary select one step and
\* those of sync_everything and export_config a sequence of the multi-step
\* shape.
BodiesNeverEmpty ==
    \A sn \in Snapshots :
        /\ \A h \in Handlers : Len(PlanFrom(ThreadBody(h), sn)) >= 1
        /\ \A h \in {"sync_cursor", "generate_summary"} :
            Len(PlanFrom(ThreadBody(h), sn)) = 1
        /\ \A h \in {"sync_everything", "export_config"} :
            MultiStepShape(Commands(PlanFrom(ThreadBody(h), sn)))

\* C24: a run that shows its verdict has run at least one command; a
\* sync_cursor or generate_summary run exactly one; a sync_everything or
\* export_config run two to four, a sync-cursor command first and
\* generate-summary last, with sync-machines before sync-tools when it ran
\* both; and the bodies select such sequences under every set of answers.
C24_PlanShapes ==
    /\ \A t \in Threads :
        VerdictShown(t)
        => /\ Len(Started(t)) >= 1
           /\ act[t] \in {"sync_cursor", "generate_summary"} => Len(Started(t)) = 1
           /\ act[t] \in {"sync_everything", "export_config"}
                => MultiStepShape(CommandsStarted(t))
    /\ BodiesNeverEmpty

\* A sync_everything run that found all three marker files has run four
\* commands, sync-machines second and sync-tools third, all successful.
C24_Witness ==
    \E t \in Threads :
        /\ VerdictShown(t)
        /\ act[t] = "sync_everything"
        /\ CommandsStarted(t) = << "npm run sync-cursor import", "npm run sync-machines",
                                   "npm run sync-tools", "npm run generate-summary" >>
        /\ AllSucceeded(Finished(t))

\* The test of a process counts as passed: it exited with status zero within
\* the timeout of run_test.
TestPassed(beh) == ExitedZeroInTime(beh, QuickTimeout)

\* C25: the quick test runs its four tests in list order, one per iteration
\* and whatever the earlier ones did; passed is at every moment the number of
\* tests run so far whose process exited with status zero within the timeout
\* (a timeout, a launch error or a non-zero status count as failures), so
\* 0 <= passed <= total; and main reports "All tests passed" exactly when
\* passed equals total, after all four tests have run.
C25_QuickTest ==
    /\ [](/\ passed = Cardinality({i \in 1..Len(ran) : TestPassed(ran[i])})
          /\ passed >= 0 /\ passed <= Len(ran) /\ Len(ran) <= total
          /\ \A i \in 1..Len(ran) : printed[i] = "PASSED" <=> TestPassed(ran[i]))
    /\ [](qt_pc = "done"
            => /\ Len(ran) = total
               /\ Len(printed) = total + 1
               /\ printed[total + 1] = "All tests passed" <=> passed = total
               /\ printed[total + 1] = "All tests passed"
                    <=> \A i \in 1..total : TestPassed(ran[i]))
    /\ [][(qt_pc = "tests" /\ Len(ran) < total)
            => /\ Len(ran') = Len(ran) + 1
               /\ SubSeq(ran', 1, Len(ran)) = ran
               /\ qt_pc' = "tests"]_vars

\* The quick test has finished with the first test timed out, the second
\* failed to launch, and the last two passed: two of four.
C25_Witness ==
    /\ qt_pc = "done"
    /\ ran[1].launched /\ ran[1].duration > QuickTimeout /\ ran[1].returncode = 0
    /\ ~ran[2].launched
    /\ passed = 2
    /\ printed = << "ERROR", "ERROR", "PASSED", "PASSED", "Some tests failed" >>

\* The file create_env_file leaves when it succeeds.
FreshlyWritten == env_file = [exists |-> TRUE, content |-> env_content]

\* The user answered the overwrite prompt with something other than y or Y.
Declined == response # << "y" >> /\ response # << "Y" >>

\* C26: setup_env.py does not overwrite an existing .env without
\* confirmation: a step of main that gets any answer but 'y' or 'Y' at the
\* prompt (asked only when .env exists) ends the invocation with "Aborted"
\* and the file as it was, and that invocation never opens .env for writing;
\* an invocation in --check mode never writes the file, none of its steps
\* changes it; and check_env_file on a .env as create_env_file has just
\* written it returns False (it holds placeholder values).
C26_NoOverwriteWithoutConfirmation ==
    /\ [][(se_pc = "ask" /\ se_pc' # "ask" /\ response' # << "y" >> /\ response' # << "Y" >>)
            => /\ env_file' = env_file
               /\ se_pc' = "done"
               /\ se_out'.line = "Aborted"
               /\ ~wrote']_vars
    /\ [](se_pc = "done" /\ se_out.line = "Aborted" => ~wrote /\ Declined)
    /\ [](se_pc # "off" /\ CheckMode(argv) => ~wrote /\ se_pc \in {"check", "done"})
    /\ [][(se_pc = "check" /\ se_pc' = "done") => env_file' = env_file]_vars
    /\ [][(env_file' # env_file /\ se_pc' # se_pc)
            => se_pc = "create" /\ wrote' /\ (response \in {<< "y" >>, << "Y" >>, <<>>})]_vars
    /\ [][(se_pc = "check" /\ se_pc' = "done" /\ FreshlyWritten)
            => ~se_out'.value /\ se_out'.line \in {"contains placeholder values",
                                                    "error reading"}]_vars
    /\ [][(se_pc = "create" /\ se_out'.value) => FreshlyWritten']_vars

\* An invocation found a configured .env, was answered "YES" at the prompt
\* and has ended without touching the file.
C26_Witness ==
    /\ se_pc = "done"
    /\ ~CheckMode(argv)
    /\ response = << "Y", "E", "S" >>
    /\ se_out.line = "Aborted"
    /\ ~wrote
    /\ env_file = [exists |-> TRUE, content |-> << "I", "D", "=", "4", "2" >>]

====
